---- MODULE Spec2Model ----
(***************************************************************************)
(* A model of S3Storage (plugin.go): a caddytls.Storage that keeps site    *)
(* and user records as JSON objects in one S3 bucket and hands out         *)
(* process-local named locks.                                              *)
(*                                                                         *)
(* Strings are sequences of one-character strings, so that lower-casing    *)
(* and key concatenation are computed and key collisions can happen.       *)
(* Byte slices are sequences of integers 0..255 with a nil flag; object    *)
(* bodies are what json.Marshal / strings.NewReader put on the wire.       *)
(***************************************************************************)
EXTENDS Integers, Sequences, FiniteSets, TLC

\* ------------------------------------------------------------------------
\* Strings and the key namespace
\* ------------------------------------------------------------------------

UpperChars == <<"A", "B", "E", "N", "R">>
LowerChars == <<"a", "b", "e", "n", "r">>

\* strings.ToLower on one character of the model's alphabet
ToLowerChar(c) ==
    IF \E i \in 1..Len(UpperChars) : UpperChars[i] = c
    THEN LowerChars[CHOOSE i \in 1..Len(UpperChars) : UpperChars[i] = c]
    ELSE c

\* strings.ToLower
ToLower(s) == [i \in 1..Len(s) |-> ToLowerChar(s[i])]

\* s.prefix as NewS3Storage sets it: "acme/" + caURL.Host + "/", host "h"
Prefix == <<"a", "c", "m", "e", "/", "h", "/">>

\* the literal "recent" of StoreUser and MostRecentUserEmail
RecentName == <<"r", "e", "c", "e", "n", "t">>

\* a domainKey that leaves the case of the domain as it is
domainKeyRaw(domain) == Prefix \o <<"d", "o", "m", "a", "i", "n", "/">> \o domain

domainKey(domain) == Prefix \o <<"d", "o", "m", "a", "i", "n", "/">> \o ToLower(domain)

userKey(email) == Prefix \o <<"u", "s", "e", "r", "/">> \o ToLower(email)

\* ------------------------------------------------------------------------
\* Inputs of the model
\* ------------------------------------------------------------------------

Domains == {<<"a">>, <<"A">>, <<"b">>}

Emails == {<<"a">>, <<"A">>, RecentName}

\* the callers (goroutines) of one S3Storage instance
Procs == {"p1", "p2"}

\* lock names
Names == {"x", "y"}

\* []byte values: nil, or a byte sequence
NilBytes == [isNil |-> TRUE, b |-> <<>>]

Bytes(seq) == [isNil |-> FALSE, b |-> seq]

\* *caddytls.SiteData values (nil pointer, or a struct of three []byte)
NilSite == [isNil |-> TRUE, Cert |-> NilBytes, Key |-> NilBytes, Meta |-> NilBytes]

Site(c, k, m) == [isNil |-> FALSE, Cert |-> c, Key |-> k, Meta |-> m]

SiteDatas ==
    { Site(Bytes(<<99>>), Bytes(<<107, 101>>), Bytes(<<109, 101, 116, 97>>)),
      Site(Bytes(<<255, 0, 7>>), Bytes(<<>>), NilBytes),
      NilSite }

\* *caddytls.UserData values (nil pointer, or a struct of two []byte)
NilUser == [isNil |-> TRUE, Key |-> NilBytes, Reg |-> NilBytes]

User(r, k) == [isNil |-> FALSE, Key |-> k, Reg |-> r]

UserDatas ==
    { User(Bytes(<<114, 101, 103>>), Bytes(<<107>>)),
      User(NilBytes, Bytes(<<>>)),
      NilUser }

\* ------------------------------------------------------------------------
\* Entity codec: encoding/json on SiteData and UserData
\* ------------------------------------------------------------------------

\* base64 padding symbol; sextets are 0..63
Pad == 64

RECURSIVE Base64Encode(_)
\* encoding/base64 StdEncoding, as json.Marshal applies it to []byte
Base64Encode(b) ==
    IF Len(b) = 0 THEN <<>>
    ELSE IF Len(b) = 1 THEN
        <<b[1] \div 4, (b[1] % 4) * 16, Pad, Pad>>
    ELSE IF Len(b) = 2 THEN
        <<b[1] \div 4, (b[1] % 4) * 16 + b[2] \div 16, (b[2] % 16) * 4, Pad>>
    ELSE
        <<b[1] \div 4, (b[1] % 4) * 16 + b[2] \div 16,
          (b[2] % 16) * 4 + b[3] \div 64, b[3] % 64>>
        \o Base64Encode(SubSeq(b, 4, Len(b)))

\* whether s is canonical StdEncoding text
Base64Valid(s) ==
    /\ Len(s) % 4 = 0
    /\ \A i \in 1..Len(s) :
         \/ s[i] \in 0..63
         \/ /\ s[i] = Pad
            /\ i >= Len(s) - 1
            /\ (i = Len(s) - 1 => s[Len(s)] = Pad)
    /\ Len(s) > 0 =>
         /\ (s[Len(s)] = Pad /\ s[Len(s) - 1] = Pad => s[Len(s) - 2] % 16 = 0)
         /\ (s[Len(s)] = Pad /\ s[Len(s) - 1] # Pad => s[Len(s) - 1] % 4 = 0)

RECURSIVE Base64Decode(_)
\* encoding/base64 StdEncoding.Decode of valid text
Base64Decode(s) ==
    IF Len(s) = 0 THEN <<>>
    ELSE IF s[4] = Pad /\ s[3] = Pad THEN
        <<s[1] * 4 + s[2] \div 16>>
    ELSE IF s[4] = Pad THEN
        <<s[1] * 4 + s[2] \div 16, (s[2] % 16) * 16 + s[3] \div 4>>
    ELSE
        <<s[1] * 4 + s[2] \div 16, (s[2] % 16) * 16 + s[3] \div 4,
          (s[3] % 4) * 64 + s[4]>>
        \o Base64Decode(SubSeq(s, 5, Len(s)))

\* JSON values on the wire
JNull == [t |-> "null"]

JStr(s) == [s |-> s, t |-> "str"]

\* a Marshal that writes a nil []byte as the empty string
MarshalBytesNilAsEmpty(v) == JStr(Base64Encode(v.b))

\* json.Marshal of a []byte: null for nil, else a base64 string
MarshalBytes(v) == IF v.isNil THEN JNull ELSE JStr(Base64Encode(v.b))

\* json.Marshal of a *SiteData
MarshalSite(data) ==
    IF data.isNil THEN JNull
    ELSE [t |-> "obj",
          f |-> [Cert |-> MarshalBytes(data.Cert),
                 Key |-> MarshalBytes(data.Key),
                 Meta |-> MarshalBytes(data.Meta)]]

\* json.Marshal of a *UserData
MarshalUser(data) ==
    IF data.isNil THEN JNull
    ELSE [t |-> "obj",
          f |-> [Key |-> MarshalBytes(data.Key),
                 Reg |-> MarshalBytes(data.Reg)]]

\* object bodies: the bytes of a JSON document, or plain text
JsonBody(v) == [v |-> v, fmt |-> "json"]

TextBody(chars) == [fmt |-> "text", chars |-> chars]

Absent == [fmt |-> "absent"]

\* the JSON document a body's bytes lex to: what json.Decoder reads
ParseBody(body) ==
    IF body.fmt = "json" THEN [v |-> body.v, ok |-> TRUE]
    ELSE IF body.chars = <<"n", "u", "l", "l">> THEN [v |-> JNull, ok |-> TRUE]
    ELSE [v |-> JNull, ok |-> FALSE]

\* whether a JSON value unmarshals into a []byte field
BytesFieldOk(v) == v.t = "null" \/ (v.t = "str" /\ Base64Valid(v.s))

\* json.Unmarshal of a value into a []byte field
UnmarshalBytes(v) == IF v.t = "null" THEN NilBytes ELSE Bytes(Base64Decode(v.s))

\* the value of field name in a JSON object, null when it has none
Field(v, name) == IF name \in DOMAIN v.f THEN v.f[name] ELSE JNull

\* json.NewDecoder(body).Decode(&data) with data a *SiteData
DecodeSite(body) ==
    LET p == ParseBody(body) IN
    IF ~p.ok THEN [data |-> NilSite, err |-> "DecodeError"]
    ELSE IF p.v.t = "null" THEN [data |-> NilSite, err |-> "nil"]
    ELSE IF p.v.t # "obj" THEN [data |-> NilSite, err |-> "DecodeError"]
    ELSE IF \E n \in {"Cert", "Key", "Meta"} : ~BytesFieldOk(Field(p.v, n))
    THEN [data |-> NilSite, err |-> "DecodeError"]
    ELSE [data |-> Site(UnmarshalBytes(Field(p.v, "Cert")),
                        UnmarshalBytes(Field(p.v, "Key")),
                        UnmarshalBytes(Field(p.v, "Meta"))),
          err |-> "nil"]

\* json.NewDecoder(body).Decode(&data) with data a *UserData
DecodeUser(body) ==
    LET p == ParseBody(body) IN
    IF ~p.ok THEN [data |-> NilUser, err |-> "DecodeError"]
    ELSE IF p.v.t = "null" THEN [data |-> NilUser, err |-> "nil"]
    ELSE IF p.v.t # "obj" THEN [data |-> NilUser, err |-> "DecodeError"]
    ELSE IF \E n \in {"Reg", "Key"} : ~BytesFieldOk(Field(p.v, n))
    THEN [data |-> NilUser, err |-> "DecodeError"]
    ELSE [data |-> User(UnmarshalBytes(Field(p.v, "Reg")),
                        UnmarshalBytes(Field(p.v, "Key"))),
          err |-> "nil"]

\* ------------------------------------------------------------------------
\* Object store adapter: s3iface.S3API on one bucket
\* ------------------------------------------------------------------------

\* the keys the model's inputs can address
Keys ==
    {domainKey(d) : d \in Domains} \cup {userKey(e) : e \in Emails}
        \cup {userKey(RecentName)}

\* how a call to the object store ends, apart from what the bucket holds:
\* "ok" (the store answers from the bucket's content), "fail" (a failure
\* other than not-found; the bucket is left as it was), "readfail" (the
\* call succeeds and reading the returned body fails)
GetOutcomes == {"ok", "fail", "readfail"}

CallOutcomes == {"ok", "fail"}

DeleteOutcomes == {"ok", "fail", "notfound"}

\* s3.HeadObject: the error the SDK returns
HeadObject(objs, key, o) ==
    IF o = "fail" THEN "AdapterFailure"
    ELSE IF objs[key] = Absent THEN "NotFound404"
    ELSE "nil"

\* s3.GetObject: the error the SDK returns and the body of the response
GetObject(objs, key, o) ==
    IF o = "fail" THEN [body |-> Absent, err |-> "AdapterFailure"]
    ELSE IF objs[key] = Absent THEN [body |-> Absent, err |-> "NotFound404"]
    ELSE [body |-> objs[key], err |-> "nil"]

\* s3.PutObject: the error the SDK returns and the bucket afterwards
PutObject(objs, key, body, o) ==
    IF o = "fail" THEN [err |-> "AdapterFailure", objs |-> objs]
    ELSE [err |-> "nil", objs |-> [objs EXCEPT ![key] = body]]

\* s3.DeleteObject: S3 answers a delete of a missing key with success; an
\* object store that reports it as not-found is the outcome "notfound"
DeleteObject(objs, key, o) ==
    IF o = "fail" THEN [err |-> "AdapterFailure", objs |-> objs]
    ELSE IF o = "notfound" /\ objs[key] = Absent
    THEN [err |-> "NotFound404", objs |-> objs]
    ELSE [err |-> "nil", objs |-> [objs EXCEPT ![key] = Absent]]

\* a test for http.StatusForbidden in place of http.StatusNotFound
IsForbidden(err) == err = "Forbidden403"

\* err.(awserr.RequestFailure) with StatusCode() == http.StatusNotFound
IsNotFound(err) == err = "NotFound404"

\* ------------------------------------------------------------------------
\* Storage facade: what each method returns, from the bucket and the
\* outcome of its object-store call
\* ------------------------------------------------------------------------

SiteExistsResult(objs, domain, o) ==
    LET err == HeadObject(objs, domainKey(domain), o) IN
    IF err # "nil" THEN
        IF IsNotFound(err) THEN [err |-> "nil", exists |-> FALSE]
        ELSE [err |-> err, exists |-> FALSE]
    ELSE [err |-> "nil", exists |-> TRUE]

LoadSiteResult(objs, domain, o) ==
    LET res == GetObject(objs, domainKey(domain), o) IN
    IF res.err # "nil" THEN
        IF IsNotFound(res.err)
        THEN [data |-> NilSite, err |-> "ErrNotExist"]
        ELSE [data |-> NilSite, err |-> res.err]
    ELSE IF o = "readfail" THEN [data |-> NilSite, err |-> "ReadError"]
    ELSE LET d == DecodeSite(res.body) IN
         IF d.err # "nil" THEN [data |-> NilSite, err |-> d.err]
         ELSE [data |-> d.data, err |-> "nil"]

StoreSiteResult(objs, domain, data, o) ==
    PutObject(objs, domainKey(domain), JsonBody(MarshalSite(data)), o)

DeleteSiteResult(objs, domain, o) ==
    DeleteObject(objs, domainKey(domain), o)

\* a LoadUser that returns the not-found error of the object store as it is
LoadUserResultRaw(objs, email, o) ==
    LET res == GetObject(objs, userKey(email), o) IN
    IF res.err # "nil" THEN [data |-> NilUser, err |-> res.err]
    ELSE IF o = "readfail" THEN [data |-> NilUser, err |-> "ReadError"]
    ELSE LET d == DecodeUser(res.body) IN
         IF d.err # "nil" THEN [data |-> NilUser, err |-> d.err]
         ELSE [data |-> d.data, err |-> "nil"]

LoadUserResult(objs, email, o) ==
    LET res == GetObject(objs, userKey(email), o) IN
    IF res.err # "nil" THEN
        IF IsNotFound(res.err)
        THEN [data |-> NilUser, err |-> "ErrNotExist"]
        ELSE [data |-> NilUser, err |-> res.err]
    ELSE IF o = "readfail" THEN [data |-> NilUser, err |-> "ReadError"]
    ELSE LET d == DecodeUser(res.body) IN
         IF d.err # "nil" THEN [data |-> NilUser, err |-> d.err]
         ELSE [data |-> d.data, err |-> "nil"]

\* the first PutObject of StoreUser: the record at the user key
StoreUserRecord(objs, email, data, o) ==
    PutObject(objs, userKey(email), JsonBody(MarshalUser(data)), o)

\* the second PutObject of StoreUser: the email at the key of "recent"
StoreUserRecent(objs, email, o) ==
    PutObject(objs, userKey(RecentName), TextBody(email), o)

\* the Go string "" as a body
EmptyString == TextBody(<<>>)

\* a MostRecentUserEmail that returns the text of the error
MostRecentUserEmailErrText(objs, o) ==
    LET res == GetObject(objs, userKey(RecentName), o) IN
    IF res.err # "nil" \/ o = "readfail" THEN TextBody(<<"e", "r", "r">>)
    ELSE res.body

\* MostRecentUserEmail: string(b) of the body read, "" on any error
MostRecentUserEmailResult(objs, o) ==
    LET res == GetObject(objs, userKey(RecentName), o) IN
    IF res.err # "nil" THEN EmptyString
    ELSE IF o = "readfail" THEN EmptyString
    ELSE res.body

\* ------------------------------------------------------------------------
\* State
\* ------------------------------------------------------------------------

\* the number of sync.WaitGroup values that can be live at once; one that
\* nothing refers to any more is collected and its id used again
MaxWg == 4

WgIds == 1..MaxWg

NoWg == 0

NoProc == "none"

NoName == ""

VARIABLES
    objects,      \* the bucket: key -> body, Absent when the key holds nothing
    nameLocks,    \* s.nameLocks: name -> WaitGroup id, NoWg when no entry
    wgCount,      \* the counter of each WaitGroup
    nameLocksMu,  \* s.nameLocksMu: the caller holding it, or NoProc
    pc,           \* where each caller is
    lname,        \* TryLock / Unlock: the argument name
    lwg,          \* TryLock / Unlock: the local wg
    lok,          \* TryLock / Unlock: the local ok
    waiter,       \* the Waiter each caller got from its last TryLock
    suser,        \* StoreUser between its two writes: email and data
    panicked,     \* a goroutine panicked (negative WaitGroup counter)
    last,         \* the call that returned last, with its result; for a
                  \* StoreUser, the PutObject it issued last
    siteHist,     \* history: per domain (up to case), the data and the spelling
                  \* of the last successful StoreSite, unless a successful
                  \* DeleteSite followed it
    userHist,     \* history: the last successful StoreUser, if no other
                  \* StoreUser ran since it began
    called,       \* history: the emails StoreUser was called with
    owners        \* history: per name, the callers whose TryLock returned no
                  \* waiter since the last successful Unlock of the name

vars ==
    <<objects, nameLocks, wgCount, nameLocksMu, pc, lname, lwg, lok,
      waiter, suser, panicked, last, siteHist, userHist, called, owners>>

lockVars == <<nameLocks, wgCount, nameLocksMu, lname, lwg, lok, waiter, panicked, owners>>

storeHist == <<siteHist, userHist, called>>

NoSite == [data |-> NilSite, has |-> FALSE, by |-> <<>>, deleted |-> FALSE]

DeletedSite == [data |-> NilSite, has |-> FALSE, by |-> <<>>, deleted |-> TRUE]

NoUserStore == [email |-> <<>>, data |-> NilUser, has |-> FALSE]

Idle == [email |-> <<>>, data |-> NilUser, busy |-> FALSE, alone |-> FALSE]

FoldedDomains == {ToLower(d) : d \in Domains}

Init ==
    /\ objects = [k \in Keys |-> Absent]
    /\ nameLocks = [n \in Names |-> NoWg]
    /\ wgCount = [w \in WgIds |-> 0]
    /\ nameLocksMu = NoProc
    /\ pc = [p \in Procs |-> "idle"]
    /\ lname = [p \in Procs |-> NoName]
    /\ lwg = [p \in Procs |-> NoWg]
    /\ lok = [p \in Procs |-> FALSE]
    /\ waiter = [p \in Procs |-> NoWg]
    /\ suser = [p \in Procs |-> Idle]
    /\ panicked = FALSE
    /\ last = [op |-> "none"]
    /\ siteHist = [d \in FoldedDomains |-> NoSite]
    /\ userHist = NoUserStore
    /\ called = {}
    /\ owners = [n \in Names |-> {}]

\* a caller that calls a method from wherever it is in another one
CanCallInside(p) == ~panicked

\* a caller that is in none of the methods and may call one
CanCall(p) == pc[p] = "idle" /\ ~panicked

\* ------------------------------------------------------------------------
\* Site operations
\* ------------------------------------------------------------------------

SiteExists(p, domain, o) ==
    /\ CanCall(p)
    /\ LET r == SiteExistsResult(objects, domain, o) IN
       last' = [domain |-> domain, err |-> r.err, o |-> o,
                exists |-> r.exists,
                op |-> "SiteExists", aerr |-> HeadObject(objects, domainKey(domain), o)]
    /\ UNCHANGED <<objects, pc, suser, storeHist, lockVars>>

LoadSite(p, domain, o) ==
    /\ CanCall(p)
    /\ LET r == LoadSiteResult(objects, domain, o) IN
       last' = [domain |-> domain, data |-> r.data, err |-> r.err,
                o |-> o,
                op |-> "LoadSite", aerr |-> GetObject(objects, domainKey(domain), o).err]
    /\ UNCHANGED <<objects, pc, suser, storeHist, lockVars>>

StoreSite(p, domain, data, o) ==
    /\ CanCall(p)
    /\ LET r == StoreSiteResult(objects, domain, data, o) IN
       /\ objects' = r.objs
       /\ last' = [domain |-> domain, data |-> data, err |-> r.err, o |-> o,
                   op |-> "StoreSite"]
       /\ siteHist' = IF r.err = "nil"
                      THEN [siteHist EXCEPT ![ToLower(domain)] =
                              [data |-> data, has |-> TRUE, by |-> domain, deleted |-> FALSE]]
                      ELSE siteHist
    /\ UNCHANGED <<pc, suser, userHist, called, lockVars>>

DeleteSite(p, domain, o) ==
    /\ CanCall(p)
    /\ LET r == DeleteSiteResult(objects, domain, o) IN
       /\ objects' = r.objs
       /\ last' = [domain |-> domain, err |-> r.err, o |-> o,
                   op |-> "DeleteSite", existed |-> siteHist[ToLower(domain)].has]
       /\ siteHist' = IF r.err = "nil"
                      THEN [siteHist EXCEPT ![ToLower(domain)] =
                              IF @.has \/ @.deleted THEN DeletedSite ELSE NoSite]
                      ELSE siteHist
    /\ UNCHANGED <<pc, suser, userHist, called, lockVars>>

\* ------------------------------------------------------------------------
\* User operations
\* ------------------------------------------------------------------------

LoadUser(p, email, o) ==
    /\ CanCall(p)
    /\ LET r == LoadUserResult(objects, email, o) IN
       last' = [email |-> email, data |-> r.data, err |-> r.err,
                o |-> o,
                op |-> "LoadUser", aerr |-> GetObject(objects, userKey(email), o).err]
    /\ UNCHANGED <<objects, pc, suser, storeHist, lockVars>>

\* whether a caller other than p is between the two writes of StoreUser
OtherStoring(p) == \E q \in Procs \ {p} : suser[q].busy

\* StoreUser up to its first PutObject and the return on its error
StoreUserPutRecord(p, email, data, o) ==
    /\ CanCall(p)
    /\ LET r == StoreUserRecord(objects, email, data, o) IN
       /\ objects' = r.objs
       /\ called' = called \cup {email}
       /\ userHist' = NoUserStore
       /\ IF r.err # "nil"
          THEN /\ pc' = pc
               /\ suser' = [q \in Procs |-> [suser[q] EXCEPT !.alone = FALSE]]
               /\ last' = [email |-> email, data |-> data, err |-> r.err,
                           alone |-> FALSE, op |-> "StoreUser", done |-> TRUE,
                           put |-> "record"]
          ELSE /\ pc' = [pc EXCEPT ![p] = "StoreUser237"]
               /\ suser' = [q \in Procs |->
                              IF q = p
                              THEN [email |-> email, data |-> data, busy |-> TRUE,
                                    alone |-> ~OtherStoring(p)]
                              ELSE [suser[q] EXCEPT !.alone = FALSE]]
               /\ last' = [email |-> email, data |-> data, err |-> "nil",
                           alone |-> ~OtherStoring(p), op |-> "StoreUser",
                           done |-> FALSE, put |-> "record"]
    /\ UNCHANGED <<siteHist, lockVars>>

\* StoreUser from its second PutObject to its return
StoreUserPutRecent(p, o) ==
    /\ pc[p] = "StoreUser237"
    /\ ~panicked
    /\ LET r == StoreUserRecent(objects, suser[p].email, o) IN
       /\ objects' = r.objs
       /\ userHist' = IF r.err = "nil" /\ suser[p].alone
                      THEN [email |-> suser[p].email, data |-> suser[p].data, has |-> TRUE]
                      ELSE NoUserStore
       /\ last' = [email |-> suser[p].email, data |-> suser[p].data, err |-> r.err,
                   alone |-> suser[p].alone, op |-> "StoreUser", done |-> TRUE,
                   put |-> "recent"]
    /\ pc' = [pc EXCEPT ![p] = "idle"]
    /\ suser' = [suser EXCEPT ![p] = Idle]
    /\ UNCHANGED <<siteHist, called, lockVars>>

MostRecentUserEmail(p, o) ==
    /\ CanCall(p)
    /\ last' = [o |-> o, op |-> "MostRecentUserEmail",
                aerr |-> GetObject(objects, userKey(RecentName), o).err,
                str |-> MostRecentUserEmailResult(objects, o)]
    /\ UNCHANGED <<objects, pc, suser, storeHist, lockVars>>

\* ------------------------------------------------------------------------
\* Named locks
\* ------------------------------------------------------------------------

\* a Lock that returns although another caller holds the mutex
MutexNeverHeld == TRUE

\* sync.Mutex.Lock returns only when no caller holds the mutex
MutexFree == nameLocksMu = NoProc

\* the WaitGroups something still refers to
LiveWgs ==
    {nameLocks[n] : n \in Names} \cup {waiter[p] : p \in Procs}
        \cup {lwg[p] : p \in Procs}

FreeWgs == WgIds \ LiveWgs

\* a TryLock that takes a WaitGroup a caller still holds as a resolved
\* waiter, when there is one, in place of a new one
NewWgReused ==
    IF \E q \in Procs : waiter[q] # NoWg /\ wgCount[waiter[q]] = 0
    THEN waiter[CHOOSE q \in Procs : waiter[q] # NoWg /\ wgCount[waiter[q]] = 0]
    ELSE CHOOSE w \in FreeWgs : \A v \in FreeWgs : w <= v

\* new(sync.WaitGroup)
NewWg == CHOOSE w \in FreeWgs : \A v \in FreeWgs : w <= v

\* a TryLock that claims the name without wg.Add(1)
TryLockBodyNoAdd(locks, counts, name, wg, ok, fresh) ==
    IF ok
    THEN [waiter |-> wg, locks |-> locks, counts |-> counts]
    ELSE [waiter |-> NoWg,
          locks |-> [locks EXCEPT ![name] = fresh],
          counts |-> counts]

\* a TryLock that takes the name over when it is claimed
TryLockBodySteal(locks, counts, name, wg, ok, fresh) ==
    [waiter |-> NoWg,
     locks |-> [locks EXCEPT ![name] = fresh],
     counts |-> [counts EXCEPT ![fresh] = 1]]

\* TryLock, lines 97-105: the Waiter returned (NoWg for nil), and the table
\* and the counters afterwards; fresh is the WaitGroup new() would give
TryLockBody(locks, counts, name, wg, ok, fresh) ==
    IF ok
    THEN [waiter |-> wg, locks |-> locks, counts |-> counts]
    ELSE [waiter |-> NoWg,
          locks |-> [locks EXCEPT ![name] = fresh],
          counts |-> [counts EXCEPT ![fresh] = 1]]

\* a delete that leaves the entry in the table
DeleteEntryNot(locks, name) == locks

\* delete(s.nameLocks, name)
DeleteEntry(locks, name) == [locks EXCEPT ![name] = NoWg]

\* an Unlock that returns nil when the name has no entry
UnlockBodySilent(locks, counts, name, wg, ok) ==
    IF ~ok
    THEN [err |-> "nil", locks |-> locks, counts |-> counts]
    ELSE IF counts[wg] = 0
    THEN [err |-> "panic", locks |-> locks, counts |-> counts]
    ELSE [err |-> "nil",
          locks |-> DeleteEntry(locks, name),
          counts |-> [counts EXCEPT ![wg] = @ - 1]]

\* Unlock, lines 113-118: the error returned, and the table and the counters
\* afterwards; wg.Done() on a counter of 0 panics before the delete. The
\* counter changes at line 116 and the table at line 117.
UnlockBody(locks, counts, name, wg, ok) ==
    IF ~ok
    THEN [err |-> "NoLockToRelease", locks |-> locks, counts |-> counts]
    ELSE IF counts[wg] = 0
    THEN [err |-> "panic", locks |-> locks, counts |-> counts]
    ELSE [err |-> "nil",
          locks |-> DeleteEntry(locks, name),
          counts |-> [counts EXCEPT ![wg] = @ - 1]]

\* TryLock, line 94: s.nameLocksMu.Lock()
TryLockEnter(p, name) ==
    /\ CanCall(p)
    /\ MutexFree
    /\ nameLocks[name] # NoWg \/ FreeWgs # {}
    /\ nameLocksMu' = p
    /\ lname' = [lname EXCEPT ![p] = name]
    /\ pc' = [pc EXCEPT ![p] = "TryLock96"]
    /\ UNCHANGED <<objects, nameLocks, wgCount, lwg, lok, waiter, suser, panicked,
                   last, storeHist, owners>>

\* TryLock, line 96: wg, ok := s.nameLocks[name]
TryLockLookup(p) ==
    /\ pc[p] = "TryLock96"
    /\ ~panicked
    /\ lwg' = [lwg EXCEPT ![p] = nameLocks[lname[p]]]
    /\ lok' = [lok EXCEPT ![p] = nameLocks[lname[p]] # NoWg]
    /\ pc' = [pc EXCEPT ![p] = "TryLock97"]
    /\ UNCHANGED <<objects, nameLocks, wgCount, nameLocksMu, lname, waiter, suser,
                   panicked, last, storeHist, owners>>

\* TryLock, lines 97-105 and the deferred s.nameLocksMu.Unlock()
TryLockReturn(p) ==
    /\ pc[p] = "TryLock97"
    /\ ~panicked
    /\ lok[p] \/ FreeWgs # {}
    /\ LET r == TryLockBody(nameLocks, wgCount, lname[p], lwg[p], lok[p], NewWg) IN
       /\ nameLocks' = r.locks
       /\ wgCount' = r.counts
       /\ waiter' = [waiter EXCEPT ![p] = r.waiter]
       /\ owners' = IF r.waiter = NoWg
                    THEN [owners EXCEPT ![lname[p]] = @ \cup {p}]
                    ELSE owners
       /\ last' = [name |-> lname[p], p |-> p, err |-> "nil",
                   waiter |-> r.waiter, op |-> "TryLock", claimed |-> owners[lname[p]] # {}]
    /\ nameLocksMu' = NoProc
    /\ lname' = [lname EXCEPT ![p] = NoName]
    /\ lwg' = [lwg EXCEPT ![p] = NoWg]
    /\ lok' = [lok EXCEPT ![p] = FALSE]
    /\ pc' = [pc EXCEPT ![p] = "idle"]
    /\ UNCHANGED <<objects, suser, panicked, storeHist>>

\* Unlock, line 110: s.nameLocksMu.Lock()
UnlockEnter(p, name) ==
    /\ CanCall(p)
    /\ MutexFree
    /\ nameLocksMu' = p
    /\ lname' = [lname EXCEPT ![p] = name]
    /\ pc' = [pc EXCEPT ![p] = "Unlock112"]
    /\ UNCHANGED <<objects, nameLocks, wgCount, lwg, lok, waiter, suser, panicked,
                   last, storeHist, owners>>

\* Unlock, line 112: wg, ok := s.nameLocks[name]
UnlockLookup(p) ==
    /\ pc[p] = "Unlock112"
    /\ ~panicked
    /\ lwg' = [lwg EXCEPT ![p] = nameLocks[lname[p]]]
    /\ lok' = [lok EXCEPT ![p] = nameLocks[lname[p]] # NoWg]
    /\ pc' = [pc EXCEPT ![p] = "Unlock113"]
    /\ UNCHANGED <<objects, nameLocks, wgCount, nameLocksMu, lname, waiter, suser,
                   panicked, last, storeHist, owners>>

\* Unlock, lines 113-116: the return on a missing entry (with the deferred
\* s.nameLocksMu.Unlock()), or wg.Done(), which callers in Wait see at once
UnlockDone(p) ==
    /\ pc[p] = "Unlock113"
    /\ ~panicked
    /\ LET r == UnlockBody(nameLocks, wgCount, lname[p], lwg[p], lok[p]) IN
       /\ wgCount' = r.counts
       /\ panicked' = (r.err = "panic")
       /\ IF r.err = "nil"
          THEN /\ pc' = [pc EXCEPT ![p] = "Unlock117"]
               /\ UNCHANGED <<nameLocksMu, lname, lwg, lok, last>>
          ELSE /\ last' = [name |-> lname[p], p |-> p, err |-> r.err,
                           op |-> "Unlock", claimed |-> owners[lname[p]] # {},
                           byOwner |-> p \in owners[lname[p]],
                           hadWaiter |-> lwg[p] # NoWg /\ waiter[p] = lwg[p]]
               /\ nameLocksMu' = NoProc
               /\ lname' = [lname EXCEPT ![p] = NoName]
               /\ lwg' = [lwg EXCEPT ![p] = NoWg]
               /\ lok' = [lok EXCEPT ![p] = FALSE]
               /\ pc' = [pc EXCEPT ![p] = "idle"]
    /\ UNCHANGED <<objects, nameLocks, waiter, suser, storeHist, owners>>

\* Unlock, lines 117-118 and the deferred s.nameLocksMu.Unlock()
UnlockReturn(p) ==
    /\ pc[p] = "Unlock117"
    /\ ~panicked
    /\ nameLocks' = DeleteEntry(nameLocks, lname[p])
    /\ owners' = [owners EXCEPT ![lname[p]] = {}]
    /\ last' = [name |-> lname[p], p |-> p, err |-> "nil",
                op |-> "Unlock", claimed |-> owners[lname[p]] # {},
                byOwner |-> p \in owners[lname[p]],
                hadWaiter |-> lwg[p] # NoWg /\ waiter[p] = lwg[p]]
    /\ nameLocksMu' = NoProc
    /\ lname' = [lname EXCEPT ![p] = NoName]
    /\ lwg' = [lwg EXCEPT ![p] = NoWg]
    /\ lok' = [lok EXCEPT ![p] = FALSE]
    /\ pc' = [pc EXCEPT ![p] = "idle"]
    /\ UNCHANGED <<objects, wgCount, waiter, suser, panicked, storeHist>>

\* the caller calls Wait on the Waiter its TryLock returned
WaitEnter(p) ==
    /\ CanCall(p)
    /\ waiter[p] # NoWg
    /\ pc' = [pc EXCEPT ![p] = "Wait"]
    /\ UNCHANGED <<objects, suser, last, storeHist, lockVars>>

\* a Wait that returns whatever the counter is
ResolvedAlways(counts, wg) == TRUE

\* sync.WaitGroup.Wait blocks until the counter is 0
Resolved(counts, wg) == counts[wg] = 0

\* sync.WaitGroup.Wait returns
WaitReturn(p) ==
    /\ pc[p] = "Wait"
    /\ ~panicked
    /\ Resolved(wgCount, waiter[p])
    /\ pc' = [pc EXCEPT ![p] = "idle"]
    /\ last' = [p |-> p, waiter |-> waiter[p], op |-> "Wait"]
    /\ UNCHANGED <<objects, suser, storeHist, lockVars>>

\* ------------------------------------------------------------------------
\* Specification
\* ------------------------------------------------------------------------

SiteStep ==
    \E p \in Procs, d \in Domains :
        \/ \E o \in CallOutcomes : SiteExists(p, d, o)
        \/ \E o \in GetOutcomes : LoadSite(p, d, o)
        \/ \E data \in SiteDatas, o \in CallOutcomes : StoreSite(p, d, data, o)
        \/ \E o \in DeleteOutcomes : DeleteSite(p, d, o)

UserStep ==
    \E p \in Procs :
        \/ \E e \in Emails, o \in GetOutcomes : LoadUser(p, e, o)
        \/ \E e \in Emails, data \in UserDatas, o \in CallOutcomes :
               StoreUserPutRecord(p, e, data, o)
        \/ \E o \in CallOutcomes : StoreUserPutRecent(p, o)
        \/ \E o \in GetOutcomes : MostRecentUserEmail(p, o)

LockStep ==
    \E p \in Procs :
        \/ \E n \in Names : TryLockEnter(p, n)
        \/ TryLockLookup(p)
        \/ TryLockReturn(p)
        \/ \E n \in Names : UnlockEnter(p, n)
        \/ UnlockLookup(p)
        \/ UnlockDone(p)
        \/ UnlockReturn(p)
        \/ WaitEnter(p)
        \/ WaitReturn(p)

Next == SiteStep \/ UserStep \/ LockStep

Spec == Init /\ [][Next]_vars

\* the site operations alone
SiteSpec == Init /\ [][SiteStep]_vars

\* the user operations alone
UserSpec == Init /\ [][UserStep]_vars

\* the named locks alone
LockSpec == Init /\ [][LockStep]_vars

\* the site and user operations together, one caller after another, on one
\* domain in two spellings and one record of each kind
FacadeStep ==
    \/ \E d \in {<<"a">>, <<"A">>} :
        \/ \E o \in CallOutcomes : SiteExists("p1", d, o)
        \/ \E o \in GetOutcomes : LoadSite("p1", d, o)
        \/ \E o \in CallOutcomes :
               StoreSite("p1", d, Site(Bytes(<<99>>), Bytes(<<>>), NilBytes), o)
        \/ \E o \in DeleteOutcomes : DeleteSite("p1", d, o)
    \/ \E e \in Emails :
        \/ \E o \in GetOutcomes : LoadUser("p1", e, o)
        \/ \E o \in CallOutcomes :
               StoreUserPutRecord("p1", e, User(Bytes(<<114>>), NilBytes), o)
    \/ \E o \in CallOutcomes : StoreUserPutRecent("p1", o)
    \/ \E o \in GetOutcomes : MostRecentUserEmail("p1", o)

FacadeSpec == Init /\ [][FacadeStep]_vars

\* the named locks and the storage methods together: two callers, the lock
\* name "x", one domain, one email and one record of each kind
CoordStep ==
    \E p \in Procs :
        \/ TryLockEnter(p, "x")
        \/ TryLockLookup(p)
        \/ TryLockReturn(p)
        \/ UnlockEnter(p, "x")
        \/ UnlockLookup(p)
        \/ UnlockDone(p)
        \/ UnlockReturn(p)
        \/ SiteExists(p, <<"a">>, "ok")
        \/ \E o \in CallOutcomes : LoadSite(p, <<"a">>, o)
        \/ \E o \in CallOutcomes :
               StoreSite(p, <<"a">>, Site(Bytes(<<99>>), Bytes(<<>>), NilBytes), o)
        \/ DeleteSite(p, <<"a">>, "ok")
        \/ LoadUser(p, <<"a">>, "ok")
        \/ \E o \in CallOutcomes :
               StoreUserPutRecord(p, <<"a">>, User(Bytes(<<114>>), NilBytes), o)
        \/ \E o \in CallOutcomes : StoreUserPutRecent(p, o)
        \/ MostRecentUserEmail(p, "ok")

CoordSpec == Init /\ [][CoordStep]_vars

\* the named locks under the scheduling of goroutines: a goroutine that can
\* run does run, so an Unlock that holds the mutex goes on to its return and
\* a Wait whose counter is 0 returns; nothing makes a caller call
LockFairSpec ==
    /\ LockSpec
    /\ \A p \in Procs :
         /\ WF_vars(UnlockLookup(p))
         /\ WF_vars(UnlockDone(p))
         /\ WF_vars(UnlockReturn(p))
         /\ WF_vars(WaitReturn(p))

\* ------------------------------------------------------------------------
\* Properties
\* ------------------------------------------------------------------------

\* the history of the domain, whatever its spelling
HistOf(domain) == siteHist[ToLower(domain)]

\* C1: once StoreSite(D, r) has succeeded and no write or delete of D has
\* followed, LoadSite(D) returns a record equal to r in Cert, Key and Meta
\* and no error, and SiteExists(D) returns true and no error (the object
\* store answering); a LoadSite that has just returned did so.
C1_StoreThenLoad ==
    /\ \A d \in Domains :
         HistOf(d).has =>
           /\ LoadSiteResult(objects, d, "ok") = [data |-> HistOf(d).data, err |-> "nil"]
           /\ SiteExistsResult(objects, d, "ok") = [err |-> "nil", exists |-> TRUE]
    /\ (last.op = "LoadSite" /\ last.o = "ok" /\ HistOf(last.domain).has) =>
         /\ last.err = "nil"
         /\ last.data.isNil = HistOf(last.domain).data.isNil
         /\ last.data.Cert = HistOf(last.domain).data.Cert
         /\ last.data.Key = HistOf(last.domain).data.Key
         /\ last.data.Meta = HistOf(last.domain).data.Meta
    /\ (last.op = "SiteExists" /\ last.o = "ok" /\ HistOf(last.domain).has) =>
         (last.exists /\ last.err = "nil")

\* a LoadSite returns the record, with a nil and an empty field, that the
\* last StoreSite of the domain wrote
C1_Witness ==
    /\ last.op = "LoadSite"
    /\ last.err = "nil"
    /\ HistOf(last.domain).has
    /\ last.data = Site(Bytes(<<255, 0, 7>>), Bytes(<<>>), NilBytes)

\* C2: for a domain whose key holds no object (never stored, or deleted
\* after the last store), SiteExists returns false and no error and
\* LoadSite returns no record and ErrNotExist (the object store answering).
C2_AbsentSite ==
    /\ \A d \in Domains :
         ~HistOf(d).has =>
           /\ SiteExistsResult(objects, d, "ok") = [err |-> "nil", exists |-> FALSE]
           /\ LoadSiteResult(objects, d, "ok") = [data |-> NilSite, err |-> "ErrNotExist"]
    /\ (last.op = "LoadSite" /\ last.o = "ok" /\ ~HistOf(last.domain).has) =>
         (last.err = "ErrNotExist" /\ last.data = NilSite)
    /\ (last.op = "SiteExists" /\ last.o = "ok" /\ ~HistOf(last.domain).has) =>
         (~last.exists /\ last.err = "nil")

\* a LoadSite of a domain that was stored and then deleted fails with ErrNotExist
C2_Witness ==
    /\ last.op = "LoadSite"
    /\ HistOf(last.domain).deleted
    /\ last.err = "ErrNotExist"

\* C10: DeleteSite deletes the site of the domain, and returns ErrNotExist
\* when the site does not exist (the object store answering).
C10_DeleteSiteNotExist ==
    (last.op = "DeleteSite" /\ last.o # "fail") =>
      /\ (last.err = "nil" => SiteExistsResult(objects, last.domain, "ok").exists = FALSE)
      /\ (~last.existed => last.err = "ErrNotExist")

\* whether StoreUser was ever called with the email, in any spelling
EverCalled(email) == \E c \in called : ToLower(c) = ToLower(email)

\* C3: after StoreUser(E, r) has succeeded and before any other StoreUser,
\* LoadUser(E) returns a record equal to r and MostRecentUserEmail returns E,
\* for every email E.
C3_StoreUserThenLoad ==
    userHist.has =>
      /\ LoadUserResult(objects, userHist.email, "ok") =
           [data |-> userHist.data, err |-> "nil"]
      /\ MostRecentUserEmailResult(objects, "ok") = TextBody(userHist.email)

\* C4: LoadUser(E) fails with ErrNotExist for every email E that StoreUser
\* was never called with, whatever other users have been stored.
C4_NeverStoredNotExist ==
    \A e \in Emails :
      ~EverCalled(e) => LoadUserResult(objects, e, "ok") = [data |-> NilUser, err |-> "ErrNotExist"]

\* the object at the key of "recent"
Pointer == objects[userKey(RecentName)]

\* C9: MostRecentUserEmail returns "" when no user was ever stored and
\* whenever the read of the pointer fails (not-found, another failure of the
\* object store, a failure reading the body), and the content stored at the
\* pointer otherwise.
C9_MostRecentNeverFails ==
    /\ called = {} => \A o \in GetOutcomes : MostRecentUserEmailResult(objects, o) = EmptyString
    /\ \A o \in {"fail", "readfail"} : MostRecentUserEmailResult(objects, o) = EmptyString
    /\ Pointer = Absent => MostRecentUserEmailResult(objects, "ok") = EmptyString
    /\ Pointer # Absent => MostRecentUserEmailResult(objects, "ok") = Pointer
    /\ last.op = "MostRecentUserEmail" =>
         /\ (last.aerr # "nil" \/ last.o = "readfail") => last.str = EmptyString
         /\ (last.aerr = "nil" /\ last.o = "ok") => last.str = Pointer

\* the pointer holds an email and a MostRecentUserEmail whose read failed
\* returned ""
C9_Witness ==
    /\ last.op = "MostRecentUserEmail"
    /\ last.o = "fail"
    /\ last.str = EmptyString
    /\ Pointer = TextBody(<<"A">>)

\* C5: of the TryLock calls on a name, one returns no waiter exactly when
\* the name is unclaimed as it runs, so that a name never has two owners
\* without an Unlock between them, every other call gets the waiter of the
\* claim, and after a successful Unlock the name is unclaimed again.
C5_MutualExclusion ==
    /\ \A n \in Names :
         /\ Cardinality(owners[n]) <= 1
         /\ (owners[n] # {}) = (nameLocks[n] # NoWg)
    /\ last.op = "TryLock" =>
         /\ last.err = "nil"
         /\ (last.waiter = NoWg) = ~last.claimed
         /\ last.waiter = NoWg => owners[last.name] = {last.p}
         /\ last.waiter # NoWg =>
              (owners[last.name] # {} /\ nameLocks[last.name] = last.waiter)
    /\ (last.op = "Unlock" /\ last.err = "nil") =>
         (owners[last.name] = {} /\ nameLocks[last.name] = NoWg)

\* a caller's TryLock returned a waiter while the other caller owns the name
C5_Witness ==
    /\ last.op = "TryLock"
    /\ last.waiter # NoWg
    /\ owners[last.name] # {}
    /\ last.p \notin owners[last.name]

\* what an Unlock of an unclaimed name returns
C6_UnlockError ==
    last.op = "Unlock" =>
      /\ (last.err = "nil") = last.claimed
      /\ ~last.claimed => last.err = "NoLockToRelease"

\* an Unlock of an unclaimed name changes neither the table nor a counter
C6_UnlockFrame ==
    \A p \in Procs :
      (pc[p] = "Unlock113" /\ pc'[p] = "idle" /\ owners[lname[p]] = {}) =>
        /\ nameLocks' = nameLocks
        /\ wgCount' = wgCount
        /\ \A q \in Procs : pc[q] = "Wait" => pc'[q] = "Wait"

\* C6: Unlock of a name that is not claimed returns the "no lock to release"
\* error, leaves the lock table as it was and releases no waiter; Unlock
\* returns no error exactly when the name is claimed.
C6_UnlockUnclaimed == []C6_UnlockError /\ [][C6_UnlockFrame]_vars

\* an Unlock of an unclaimed name failed while another name is claimed
C6_Witness ==
    /\ last.op = "Unlock"
    /\ last.err = "NoLockToRelease"
    /\ \E n \in Names : nameLocks[n] # NoWg

\* two strings that differ at most in the case of their letters
SameLetters(a, b) ==
    /\ Len(a) = Len(b)
    /\ \A i \in 1..Len(a) : ToLowerChar(a[i]) = ToLowerChar(b[i])

\* C7: two domains, or two emails, that differ only in letter case address
\* the same object in every operation: each operation does the same under
\* either spelling, a LoadSite under one spelling returns the record stored
\* under the other, and after a DeleteSite under one spelling the site
\* exists under neither.
C7_CaseInsensitiveKeys ==
    /\ \A d1 \in Domains, d2 \in Domains :
         SameLetters(d1, d2) =>
           /\ LoadSiteResult(objects, d1, "ok") = LoadSiteResult(objects, d2, "ok")
           /\ SiteExistsResult(objects, d1, "ok") = SiteExistsResult(objects, d2, "ok")
           /\ \A o \in DeleteOutcomes :
                DeleteSiteResult(objects, d1, o) = DeleteSiteResult(objects, d2, o)
           /\ \A data \in SiteDatas :
                StoreSiteResult(objects, d1, data, "ok") = StoreSiteResult(objects, d2, data, "ok")
    /\ \A e1 \in Emails, e2 \in Emails :
         SameLetters(e1, e2) =>
           /\ LoadUserResult(objects, e1, "ok") = LoadUserResult(objects, e2, "ok")
           /\ \A data \in UserDatas :
                StoreUserRecord(objects, e1, data, "ok") = StoreUserRecord(objects, e2, data, "ok")
    /\ (last.op = "LoadSite" /\ last.o = "ok" /\ HistOf(last.domain).has) =>
         (last.err = "nil" /\ last.data = HistOf(last.domain).data)
    /\ (last.op = "DeleteSite" /\ last.err = "nil") =>
         \A d \in Domains :
           SameLetters(d, last.domain) => ~SiteExistsResult(objects, d, "ok").exists

\* a LoadSite returned the record that was stored under the other spelling
C7_Witness ==
    /\ last.op = "LoadSite"
    /\ last.err = "nil"
    /\ ~last.data.isNil
    /\ HistOf(last.domain).has
    /\ HistOf(last.domain).by # last.domain

\* C8: on not-found from the object store LoadSite and LoadUser return
\* ErrNotExist and SiteExists returns false and no error; on another failure
\* of the object store the three return that error, never ErrNotExist; and
\* SiteExists never returns true with an error.
C8_NotFoundTranslation ==
    /\ last.op \in {"LoadSite", "LoadUser"} =>
         /\ last.aerr = "NotFound404" => (last.err = "ErrNotExist" /\ last.data.isNil)
         /\ last.aerr = "AdapterFailure" => (last.err = "AdapterFailure" /\ last.data.isNil)
         /\ last.err = "ErrNotExist" => last.aerr = "NotFound404"
    /\ last.op = "SiteExists" =>
         /\ last.aerr = "NotFound404" => (~last.exists /\ last.err = "nil")
         /\ last.aerr = "AdapterFailure" => (~last.exists /\ last.err = "AdapterFailure")
         /\ last.exists => last.err = "nil"
         /\ last.err # "ErrNotExist"

\* SiteExists of a stored site returned false and the failure of the store
C8_Witness ==
    /\ last.op = "SiteExists"
    /\ HistOf(last.domain).has
    /\ last.aerr = "AdapterFailure"
    /\ last.err = "AdapterFailure"
    /\ ~last.exists

\* what a StoreUser has written when it returns an error of its second
\* PutObject, no other StoreUser having run meanwhile
C11_RecordRemains ==
    (last.op = "StoreUser" /\ last.put = "recent" /\ last.err # "nil" /\ last.alone) =>
      LoadUserResult(objects, last.email, "ok") = [data |-> last.data, err |-> "nil"]

\* the two PutObject calls of StoreUser, step by step
C11_WriteStep ==
    /\ (last'.op = "StoreUser" /\ last'.put = "record") =>
         /\ Pointer' = Pointer
         /\ last'.err # "nil" => (last'.done /\ objects' = objects /\ pc' = pc)
         /\ last'.err = "nil" =>
              /\ ~last'.done
              /\ objects'[userKey(last'.email)] = JsonBody(MarshalUser(last'.data))
    /\ (last'.op = "StoreUser" /\ last'.put = "recent") =>
         /\ \E p \in Procs :
              /\ pc[p] = "StoreUser237"
              /\ suser[p].email = last'.email
              /\ pc'[p] = "idle"
         /\ last'.done
         /\ last'.err # "nil" => objects' = objects
         /\ last'.err = "nil" => Pointer' = TextBody(last'.email)

\* C11: StoreUser(E, r) writes the record at the user key of E first and the
\* pointer second; the first write leaves the pointer as it was, and when it
\* fails StoreUser returns without a second write; when the second write
\* fails StoreUser returns its error, the record of E stays stored and the
\* pointer is as it was before the call.
C11_StoreUserWriteOrder == []C11_RecordRemains /\ [][C11_WriteStep]_vars

\* the claim the WaitGroup stands for is outstanding: a name's entry holds
\* it and no Unlock has called Done on it
Outstanding(w) ==
    \E n \in Names :
      /\ nameLocks[n] = w
      /\ ~\E q \in Procs : pc[q] = "Unlock117" /\ lname[q] = n

\* what the return of a successful Unlock and the return of a Wait do
C12_ReleaseStep ==
    \A p \in Procs :
      /\ (pc[p] = "Unlock117" /\ pc'[p] = "idle") =>
           /\ nameLocks[lname[p]] = lwg[p]
           /\ lwg[p] # NoWg
           /\ nameLocks'[lname[p]] = NoWg
           /\ owners'[lname[p]] = {}
           /\ \A q \in Procs : waiter[q] = lwg[p] => Resolved(wgCount', waiter[q])
      /\ (pc[p] = "Wait" /\ pc'[p] = "idle") => ~Outstanding(waiter[p])

\* once Unlock is called on the name of the claim a caller waits on, and
\* once the claim it waits on is released, the caller's Wait returns
C12_WaitReturns ==
    /\ \A p \in Procs, q \in Procs :
         (pc[p] = "Wait" /\ pc[q] = "Unlock112" /\ nameLocks[lname[q]] = waiter[p])
           ~> (pc[p] = "idle")
    /\ \A p \in Procs :
         (pc[p] = "Wait" /\ ~Outstanding(waiter[p])) ~> (pc[p] = "idle")

\* C12: a successful Unlock(name) removes the entry of name, so that name is
\* unclaimed, and resolves the waiter of the claim; no Wait on a waiter of
\* the claim returns before that Unlock has called Done, and under fair
\* scheduling every such Wait returns once Unlock(name) is called.
C12_UnlockReleasesWaiters == [][C12_ReleaseStep]_vars /\ C12_WaitReturns

\* a caller is in Wait on the waiter of the claim that the other caller's
\* Unlock has just released
C12_Witness ==
    /\ last.op = "Unlock"
    /\ last.err = "nil"
    /\ \E p \in Procs \ {last.p} :
         /\ pc[p] = "Wait"
         /\ Resolved(wgCount, waiter[p])
         /\ p \notin owners[last.name]

\* a resolved waiter belongs to no claim that is still outstanding, and a
\* TryLock that holds the mutex can go on whatever is claimed
C13_NoWaitInTryLock ==
    \A p \in Procs :
      /\ (waiter[p] # NoWg /\ Resolved(wgCount, waiter[p])) => ~Outstanding(waiter[p])
      /\ (pc[p] = "TryLock96" /\ ~panicked) => ENABLED TryLockLookup(p)
      /\ (pc[p] = "TryLock97" /\ ~panicked) => ENABLED TryLockReturn(p)

\* the return of a TryLock that found the name claimed, and the only way
\* a caller becomes the owner of a name
C13_ClaimedStep ==
    \A p \in Procs :
      /\ (pc[p] = "TryLock97" /\ pc'[p] = "idle" /\ nameLocks[lname[p]] # NoWg) =>
           /\ nameLocks' = nameLocks
           /\ wgCount' = wgCount
           /\ owners' = owners
           /\ waiter'[p] = nameLocks[lname[p]]
           /\ last'.op = "TryLock" /\ last'.p = p
           /\ last'.err = "nil" /\ last'.waiter # NoWg
      /\ \A n \in Names :
           (p \notin owners[n] /\ p \in owners'[n]) =>
             /\ pc[p] = "TryLock97" /\ pc'[p] = "idle" /\ lname[p] = n
             /\ nameLocks[n] = NoWg
             /\ waiter'[p] = NoWg

\* C13: TryLock(name) on a claimed name returns the waiter of the claim and
\* no error and changes neither the table, nor a counter, nor the owner; a
\* caller becomes the owner only by a TryLock(name) of its own that finds
\* the name unclaimed and returns no waiter; the claim of a resolved waiter
\* is released; and TryLock, once it has the mutex, never waits.
C13_TryLockOnClaimed == []C13_NoWaitInTryLock /\ [][C13_ClaimedStep]_vars

\* a TryLock has returned the waiter of the other caller's claim, which is
\* still outstanding, and the caller is back from the call
C13_Witness ==
    /\ last.op = "TryLock"
    /\ last.waiter # NoWg
    /\ pc[last.p] = "idle"
    /\ waiter[last.p] = last.waiter
    /\ Outstanding(last.waiter)
    /\ owners[last.name] # {} /\ last.p \notin owners[last.name]
    /\ ~Resolved(wgCount, last.waiter)

\* whether a body is the encoding of a site record: a JSON object whose
\* fields Cert, Key and Meta are null or base64 strings
IsSiteRecord(body) ==
    /\ body.fmt = "json"
    /\ body.v.t = "obj"
    /\ DOMAIN body.v.f = {"Cert", "Key", "Meta"}
    /\ \A n \in DOMAIN body.v.f : BytesFieldOk(body.v.f[n])

\* whether a body is the encoding of a user record
IsUserRecord(body) ==
    /\ body.fmt = "json"
    /\ body.v.t = "obj"
    /\ DOMAIN body.v.f = {"Key", "Reg"}
    /\ \A n \in DOMAIN body.v.f : BytesFieldOk(body.v.f[n])

\* C14: LoadSite and LoadUser return either a record or an error, never
\* neither and never both; when the object at the key is not the encoding
\* of a record the load returns a decode error and no record, and when the
\* load returns a record the object is the encoding of that record.
C14_LoadNeedsRecord ==
    /\ \A d \in Domains :
         LET body == objects[domainKey(d)]
             r == LoadSiteResult(objects, d, "ok")
         IN /\ (r.err = "nil") = ~r.data.isNil
            /\ (body # Absent /\ ~IsSiteRecord(body)) =>
                 r = [data |-> NilSite, err |-> "DecodeError"]
            /\ r.err = "nil" => body = JsonBody(MarshalSite(r.data))
    /\ \A e \in Emails :
         LET body == objects[userKey(e)]
             r == LoadUserResult(objects, e, "ok")
         IN /\ (r.err = "nil") = ~r.data.isNil
            /\ (body # Absent /\ ~IsUserRecord(body)) =>
                 r = [data |-> NilUser, err |-> "DecodeError"]
            /\ r.err = "nil" => body = JsonBody(MarshalUser(r.data))
    /\ last.op \in {"LoadSite", "LoadUser"} => (last.err = "nil") = ~last.data.isNil

\* the keys whose object a step changes
Changed == {k \in Keys : objects'[k] # objects[k]}

\* C15: StoreSite(D, _) and DeleteSite(D) change at most the object at the
\* domain key of D, StoreUser(E, _) at most the object at the user key of E
\* and the pointer, and the other operations none; so no site operation
\* changes a user object or the pointer, and no operation on a domain or an
\* email changes the object of a domain, or the stored record of an email,
\* that differs from it in more than letter case.
C15_KeyIsolationStep ==
    /\ \A k \in Changed :
         \/ last'.op \in {"StoreSite", "DeleteSite"} /\ k = domainKey(last'.domain)
         \/ last'.op = "StoreUser" /\ last'.put = "record" /\ k = userKey(last'.email)
         \/ last'.op = "StoreUser" /\ last'.put = "recent" /\ k = userKey(RecentName)
    /\ last'.op \in {"StoreSite", "DeleteSite"} =>
         /\ \A e \in Emails : userKey(e) \notin Changed
         /\ userKey(RecentName) \notin Changed
         /\ \A d \in Domains :
              ~SameLetters(d, last'.domain) => domainKey(d) \notin Changed
    /\ last'.op = "StoreUser" =>
         \A e \in Emails :
           (IsUserRecord(objects[userKey(e)]) /\ ~SameLetters(e, last'.email)) =>
             userKey(e) \notin Changed

C15_KeyIsolation == [][C15_KeyIsolationStep]_vars

\* C16: whenever the pointer is set, under any interleaving of StoreUser
\* calls, its content is the email, as given, of a StoreUser call, and
\* LoadUser of that email returns no error and a user record.
C16_PointerIntegrity ==
    Pointer # Absent =>
      \E e \in called :
        /\ Pointer = TextBody(e)
        /\ MostRecentUserEmailResult(objects, "ok") = TextBody(e)
        /\ LoadUserResult(objects, e, "ok").err = "nil"
        /\ LoadUserResult(objects, e, "ok").data \in UserDatas \ {NilUser}

\* what an Unlock of a claimed name has done when it returns, whoever called
C17_UnlockAnyCaller ==
    (last.op = "Unlock" /\ last.claimed) =>
      /\ last.err = "nil"
      /\ nameLocks[last.name] = NoWg
      /\ owners[last.name] = {}
      /\ TryLockBody(nameLocks, wgCount, last.name, NoWg, FALSE, NewWg).waiter = NoWg

\* the steps of an Unlock of a claimed name, whoever takes them, and the
\* only step that ends a claim
C17_UnlockStep ==
    /\ \A p \in Procs :
         /\ (pc[p] = "Unlock113" /\ pc'[p] # "Unlock113" /\ nameLocks[lname[p]] # NoWg) =>
              /\ pc'[p] = "Unlock117"
              /\ \A q \in Procs :
                   waiter[q] = nameLocks[lname[p]] => Resolved(wgCount', waiter[q])
         /\ (pc[p] = "Unlock117" /\ pc'[p] = "idle") =>
              /\ nameLocks' = DeleteEntry(nameLocks, lname[p])
              /\ nameLocks'[lname[p]] = NoWg
              /\ owners'[lname[p]] = {}
              /\ last'.op = "Unlock" /\ last'.p = p /\ last'.err = "nil"
    /\ \A n \in Names :
         (owners[n] # {} /\ owners'[n] = {}) =>
           \E p \in Procs : pc[p] = "Unlock117" /\ pc'[p] = "idle" /\ lname[p] = n

\* C17: Unlock(name) of a claimed name succeeds for every caller, the owner
\* or not, with one effect: the waiters of the claim are resolved, the entry
\* is removed and the next TryLock(name) returns no waiter; a claim ends by
\* the Unlock(name) of any caller and by nothing else.
C17_UnlockNoOwner == []C17_UnlockAnyCaller /\ [][C17_UnlockStep]_vars

\* an Unlock has succeeded for a caller that does not own the name and
\* whose own TryLock of it had returned the waiter of the claim
C17_Witness ==
    /\ last.op = "Unlock"
    /\ last.err = "nil"
    /\ ~last.byOwner
    /\ last.hadWaiter
    /\ pc[last.p] = "idle"

\* a waiter a caller holds is the entry of a name or is resolved, whatever
\* is claimed now, and a Wait on a resolved waiter can return
C18_ResolvedWaiter ==
    \A p \in Procs :
      /\ waiter[p] # NoWg =>
           \/ \E n \in Names : nameLocks[n] = waiter[p]
           \/ Resolved(wgCount, waiter[p])
      /\ (pc[p] = "Wait" /\ Resolved(wgCount, waiter[p]) /\ ~panicked) =>
           ENABLED WaitReturn(p)

\* a resolved waiter stays resolved for as long as the caller holds it
C18_StaysResolved ==
    \A p \in Procs :
      (waiter[p] # NoWg /\ Resolved(wgCount, waiter[p]) /\ waiter'[p] = waiter[p]) =>
        Resolved(wgCount', waiter'[p])

\* C18: a waiter belongs to the claim that was outstanding when TryLock
\* returned it: once the claim is released the waiter is resolved and stays
\* resolved, so a Wait on it can return at once even when the name is
\* claimed again, and a later claim never blocks it.
C18_WaiterOfClaim == []C18_ResolvedWaiter /\ [][C18_StaysResolved]_vars

\* a Wait on the waiter of an earlier claim has returned while every name
\* is claimed, by a later claim with another WaitGroup
C18_Witness ==
    /\ last.op = "Wait"
    /\ pc[last.p] = "idle"
    /\ waiter[last.p] = last.waiter
    /\ \A n \in Names :
         /\ nameLocks[n] # NoWg
         /\ nameLocks[n] # last.waiter
         /\ ~Resolved(wgCount, nameLocks[n])

\* where a caller is while it is in TryLock or in Unlock
LockPcs == {"TryLock96", "TryLock97", "Unlock112", "Unlock113", "Unlock117"}

\* the caller that holds the mutex is in TryLock or Unlock and between no
\* two calls to the object store; while the name is claimed and another
\* caller holds the mutex a caller can store a site and a StoreUser can go
\* on to its second write; and what a read returned is what the bucket
\* alone gives
C19_NoStoreCallUnderGuard ==
    /\ \A p \in Procs :
         /\ nameLocksMu = p => (pc[p] \in LockPcs /\ ~suser[p].busy)
         /\ pc[p] \in LockPcs => (nameLocksMu = p /\ ~suser[p].busy)
         /\ (CanCall(p) /\ nameLocksMu # NoProc /\ nameLocks["x"] # NoWg) =>
              ENABLED StoreSite(p, <<"a">>, NilSite, "ok")
         /\ (pc[p] = "StoreUser237" /\ nameLocksMu # NoProc) =>
              ENABLED StoreUserPutRecent(p, "ok")
    /\ last.op = "SiteExists" =>
         [err |-> last.err, exists |-> last.exists]
           = SiteExistsResult(objects, last.domain, last.o)
    /\ last.op = "LoadSite" =>
         [data |-> last.data, err |-> last.err] = LoadSiteResult(objects, last.domain, last.o)
    /\ last.op = "LoadUser" =>
         [data |-> last.data, err |-> last.err] = LoadUserResult(objects, last.email, last.o)
    /\ last.op = "MostRecentUserEmail" =>
         last.str = MostRecentUserEmailResult(objects, last.o)

\* a step changes the locks or the storage, never both; a step of TryLock
\* or Unlock is a step of the caller that holds the mutex; and what a write
\* does is what the bucket alone gives
C19_OneSideStep ==
    /\ \/ UNCHANGED <<nameLocks, wgCount, nameLocksMu, lname, lwg, lok, waiter, owners>>
       \/ UNCHANGED <<objects, suser, siteHist, userHist, called>>
    /\ \A p \in Procs :
         (pc'[p] # pc[p] /\ (pc[p] \in LockPcs \/ pc'[p] \in LockPcs)) =>
           /\ nameLocksMu = p \/ nameLocksMu' = p
           /\ UNCHANGED <<objects, suser, siteHist, userHist, called>>
    /\ (objects' # objects \/ suser' # suser) =>
         UNCHANGED <<nameLocks, wgCount, nameLocksMu, lname, lwg, lok, waiter, owners>>
    /\ (pc' = pc /\ last'.op = "StoreSite") =>
         [err |-> last'.err, objs |-> objects']
           = StoreSiteResult(objects, last'.domain, last'.data, last'.o)
    /\ (pc' = pc /\ last'.op = "DeleteSite") =>
         [err |-> last'.err, objs |-> objects']
           = DeleteSiteResult(objects, last'.domain, last'.o)

\* C19: TryLock and Unlock change no stored object and are in no call to
\* the object store; every storage method leaves the lock table, the
\* counters and the mutex as they are and does what the bucket and the
\* outcome of its call give, whatever is claimed; and the caller that holds
\* the mutex has no call to the object store in flight.
C19_LocksAndStoreOrthogonal == []C19_NoStoreCallUnderGuard /\ [][C19_OneSideStep]_vars

\* a StoreUser of one caller is between its two writes while the other
\* caller is in TryLock with the mutex and the name is claimed
C19_Witness ==
    \E p \in Procs, q \in Procs :
      /\ pc[p] = "StoreUser237"
      /\ suser[p].busy
      /\ nameLocksMu = q
      /\ pc[q] = "TryLock97"
      /\ nameLocks["x"] # NoWg
      /\ objects[userKey(<<"a">>)] # Absent

\* the counter of every WaitGroup: 1 for the entry of a name, until the
\* Unlock of the name has called Done, and 0 for every other one
C20_CountOfHandle ==
    /\ ~panicked
    /\ \A w \in WgIds : wgCount[w] \in {0, 1}
    /\ \A n \in Names :
         nameLocks[n] # NoWg =>
           /\ wgCount[nameLocks[n]] =
                IF \E q \in Procs : pc[q] = "Unlock117" /\ lname[q] = n THEN 0 ELSE 1
           /\ \A m \in Names \ {n} : nameLocks[m] # nameLocks[n]
    /\ nameLocksMu = NoProc =>
         \A n \in Names : nameLocks[n] # NoWg => wgCount[nameLocks[n]] = 1
    /\ \A w \in WgIds : (\A n \in Names : nameLocks[n] # w) => wgCount[w] = 0
    /\ last.op = "Unlock" => last.err # "panic"

\* a counter goes down once, from 1 to 0 by the Done of an Unlock that found
\* the WaitGroup in the table, and up only for a new WaitGroup
C20_CountStep ==
    \A w \in WgIds :
      /\ wgCount'[w] < wgCount[w] =>
           /\ wgCount[w] = 1 /\ wgCount'[w] = 0
           /\ \E p \in Procs :
                /\ pc[p] = "Unlock113" /\ pc'[p] = "Unlock117"
                /\ lwg[p] = w /\ nameLocks[lname[p]] = w
      /\ wgCount'[w] > wgCount[w] =>
           /\ wgCount[w] = 0 /\ wgCount'[w] = 1
           /\ w \notin LiveWgs
           /\ \E n \in Names : nameLocks[n] = NoWg /\ nameLocks'[n] = w

\* C20: under any interleaving of TryLock and Unlock calls the WaitGroup in
\* the entry of a name has the counter 1 and a WaitGroup no longer in the
\* table has the counter 0 (inside Unlock, between its Done and its delete,
\* the entry it is about to remove has the counter 0 already); Unlock
\* takes a counter down at most once, so no counter goes below 0, Unlock
\* never panics, and a released WaitGroup is never added to again.
C20_WaitGroupCounts == []C20_CountOfHandle /\ [][C20_CountStep]_vars

\* after a successful Unlock one name is claimed, with the counter 1, and a
\* caller holds the waiter of a released claim, with the counter 0
C20_Witness ==
    /\ last.op = "Unlock"
    /\ last.err = "nil"
    /\ nameLocksMu = NoProc
    /\ \E n \in Names : nameLocks[n] # NoWg /\ wgCount[nameLocks[n]] = 1
    /\ \E p \in Procs :
         /\ waiter[p] # NoWg
         /\ \A n \in Names : nameLocks[n] # waiter[p]
         /\ wgCount[waiter[p]] = 0

====
